---------------------------- MODULE Spec2Model ----------------------------
(***************************************************************************)
(* A model of the proc-singleton macros (src/src/lib.rs).                  *)
(*                                                                         *)
(* The crate holds two procedural macros and one helper:                   *)
(*   singleton_from_static   attribute macro on a static declaration       *)
(*   derive_singleton        derive macro on a struct                      *)
(*   find_singleton_static_name   scans attributes for #[singleton(X)]     *)
(*                                                                         *)
(* Token streams are sequences of tokens (strings).  Parsed syntax trees   *)
(* are records.  The compiler's expansion pass is the state machine: each  *)
(* step it hands one annotated declaration to one of the two macros and    *)
(* receives the macro's result.                                            *)
(***************************************************************************)
EXTENDS Naturals, Sequences, FiniteSets

VARIABLES
    invocation,   \* the macro call the compiler made last, with its inputs
    output,       \* what that call returned (tokens) or that it panicked
    expansions    \* number of macro calls made so far in this compilation

vars == <<invocation, output, expansions>>

---------------------------------------------------------------------------
(* Bounds *)

\* longest attribute argument token stream given to singleton_from_static
MaxAttrTokens == 3
\* largest number of attributes on a derive input
MaxAttrs == 2
\* number of macro calls in one compilation
MaxExpansions == 2

---------------------------------------------------------------------------
(* Tokens and inputs *)

Idents == {"Identifier", "IDENT", "OTHER", "Config"}
IsIdent(t) == t \in Idents

\* tokens the attribute argument of singleton_from_static is drawn from
AttrTokens == {"Identifier", "::", "42"}

SeqsUpTo(S, n) == UNION {[1..k -> S] : k \in 0..n}

AttrStreams == SeqsUpTo(AttrTokens, MaxAttrTokens)

\* well-formed static declarations: vis static ident: ty = expr;
StaticItems ==
    { [kind |-> "static", vis |-> "", ident |-> "IDENT",
       ty |-> "LazyLock<Identifier>", expr |-> "LazyLock::new(..)"],
      [kind |-> "static", vis |-> "", ident |-> "IDENT",
       ty |-> "u32", expr |-> "0"],
      [kind |-> "static", vis |-> "pub", ident |-> "OTHER",
       ty |-> "LazyLock<Identifier>", expr |-> "LazyLock::new(..)"] }

\* declarations of another kind that the attribute may be put on
OtherItems ==
    { [kind |-> "fn", vis |-> "", ident |-> "IDENT", ty |-> "u32", expr |-> "0"],
      [kind |-> "struct", vis |-> "pub", ident |-> "Identifier", ty |-> "", expr |-> ""] }

Items == StaticItems \cup OtherItems

\* argument token streams of attributes on a derive input
ArgSamples ==
    { <<"IDENT">>, <<"OTHER">>, <<"42">>,
      <<"IDENT", "::", "OTHER">>, <<"IDENT", "+", "OTHER">> }

\* #[singleton], #[singleton(args)], #[doc(IDENT)]
Attributes ==
    { [path |-> "singleton", style |-> "path", tokens |-> <<>>] }
    \cup { [path |-> "singleton", style |-> "list", tokens |-> a] : a \in ArgSamples }
    \cup { [path |-> "doc", style |-> "list", tokens |-> <<"IDENT">>] }

AttrLists == SeqsUpTo(Attributes, MaxAttrs)

\* struct declarations apart from their attributes
StructSamples ==
    { [kind |-> "struct", vis |-> "", ident |-> "Identifier",
       generics |-> <<>>, fields |-> <<"id">>],
      [kind |-> "struct", vis |-> "pub", ident |-> "Identifier",
       generics |-> <<"T">>, fields |-> <<>>],
      [kind |-> "struct", vis |-> "", ident |-> "Config",
       generics |-> <<>>, fields |-> <<"id">>] }

DeriveInputs ==
    { [kind |-> d.kind, vis |-> d.vis, ident |-> d.ident, generics |-> d.generics,
       fields |-> d.fields, attrs |-> as] :
        d \in StructSamples, as \in AttrLists }

---------------------------------------------------------------------------
(* syn: paths and expressions *)

\* Path segments from position i on: ident (:: ident)*.  Returns the
\* segments read and the position after them; ok is FALSE when an
\* identifier is expected and something else is found.
RECURSIVE ParseSegments(_, _, _)
ParseSegments(tokens, i, segs) ==
    IF i > Len(tokens) \/ ~IsIdent(tokens[i])
    THEN [ok |-> FALSE, segments |-> segs, next |-> i]
    ELSE IF i + 1 <= Len(tokens) /\ tokens[i + 1] = "::"
         THEN ParseSegments(tokens, i + 2, Append(segs, tokens[i]))
         ELSE [ok |-> TRUE, segments |-> Append(segs, tokens[i]), next |-> i + 1]

\* A path at position i: an optional leading :: and the segments.
ParsePath(tokens, i) ==
    LET lead == i <= Len(tokens) /\ tokens[i] = "::"
        r    == ParseSegments(tokens, IF lead THEN i + 1 ELSE i, <<>>)
    IN  [ok |-> r.ok, leading_colon |-> lead, segments |-> r.segments,
         next |-> r.next]

\* Path::get_ident: the identifier of a path that is one segment with no
\* leading colon.
GetIdent(path) ==
    IF ~path.leading_colon /\ Len(path.segments) = 1
    THEN [some |-> TRUE, ident |-> path.segments[1]]
    ELSE [some |-> FALSE, ident |-> ""]

\* The tokens a path prints as (quote's interpolation of a TypePath).
PathTokens(path) ==
    LET n == Len(path.segments)
        body == [k \in 1..(IF n = 0 THEN 0 ELSE 2 * n - 1) |->
                    IF k % 2 = 1 THEN path.segments[(k + 1) \div 2] ELSE "::"]
    IN  IF path.leading_colon THEN <<"::">> \o body ELSE body


\* Expr::parse on the tokens this model draws from: an operand is a literal
\* or a path, and operand + operand is a binary expression.
ParseOperand(tokens, i) ==
    IF i <= Len(tokens) /\ tokens[i] = "42"
    THEN [ok |-> TRUE, variant |-> "Lit", leading_colon |-> FALSE,
          segments |-> <<>>, next |-> i + 1]
    ELSE LET p == ParsePath(tokens, i)
         IN  [ok |-> p.ok, variant |-> "Path", leading_colon |-> p.leading_colon,
              segments |-> p.segments, next |-> p.next]

ParseExpr(tokens) ==
    LET lhs == ParseOperand(tokens, 1)
    IN  IF ~lhs.ok THEN lhs
        ELSE IF lhs.next <= Len(tokens) /\ tokens[lhs.next] = "+"
             THEN LET rhs == ParseOperand(tokens, lhs.next + 1)
                  IN  [ok |-> rhs.ok, variant |-> "Binary", leading_colon |-> FALSE,
                       segments |-> <<>>, next |-> rhs.next]
             ELSE lhs

\* Attribute::parse_args::<Expr>: only a list-style attribute has arguments,
\* and the parser must use all of them.
ParseArgsExpr(attr) ==
    IF attr.style # "list"
    THEN [ok |-> FALSE, variant |-> "", leading_colon |-> FALSE, segments |-> <<>>]
    ELSE LET e == ParseExpr(attr.tokens)
         IN  [ok |-> e.ok /\ e.next = Len(attr.tokens) + 1, variant |-> e.variant,
              leading_colon |-> e.leading_colon, segments |-> e.segments]

---------------------------------------------------------------------------
(* Results of a macro call *)

\* a token stream holding the given items
Tokens(items) == [kind |-> "tokens", items |-> items, msg |-> ""]

\* parse_macro_input! on a parse failure: the macro returns the error as a
\* compile_error item and nothing else; stage names the input that failed
CompileError(stage) ==
    Tokens(<<[kind |-> "compile_error", stage |-> stage]>>)

\* the macro panicked: no token stream is returned
Panic(msg) == [kind |-> "panic", items |-> <<>>, msg |-> msg]

\* impl type_name { pub fn get_instance() -> &'static type_name { &static_name } }
ImplBlock(type_name, static_name) ==
    [kind |-> "impl", self_ty |-> type_name,
     methods |-> << [vis |-> "pub", name |-> "get_instance", inputs |-> <<>>,
                     ret |-> [ref |-> "'static", ty |-> type_name],
                     body |-> [ref |-> static_name]] >>]

---------------------------------------------------------------------------
(* singleton_from_static *)

\* SingletonArgs::parse: one TypePath from the front of the stream
SingletonArgsParse(attr) ==
    LET p == ParsePath(attr, 1)
    IN  [ok |-> p.ok,
         type_name |-> [leading_colon |-> p.leading_colon, segments |-> p.segments],
         next |-> p.next]

\* parse_macro_input! that leaves tokens after the type path unread
ParseAttr_ignores_rest(attr) ==
    LET a == SingletonArgsParse(attr)
    IN  [ok |-> a.ok, type_name |-> a.type_name]

\* parse_macro_input!(attr as SingletonArgs): the whole stream must be used
ParseAttr(attr) ==
    LET a == SingletonArgsParse(attr)
    IN  [ok |-> a.ok /\ a.next = Len(attr) + 1, type_name |-> a.type_name]

\* parse_macro_input!(item as ItemStatic)
ParseItemStatic(item) ==
    [ok |-> item.kind = "static",
     vis |-> item.vis, ident |-> item.ident, ty |-> item.ty, expr |-> item.expr]

\* #input: the parsed static printed back
StaticTokens(input) ==
    [kind |-> "static", vis |-> input.vis, ident |-> input.ident,
     ty |-> input.ty, expr |-> input.expr]

\* singleton_from_static without #input in the quoted output
singleton_from_static_drops_input(attr, item) ==
    LET args == ParseAttr(attr)
    IN  IF ~args.ok THEN CompileError("attr")
        ELSE LET input == ParseItemStatic(item)
             IN  IF ~input.ok THEN CompileError("item")
                 ELSE Tokens(<< ImplBlock(PathTokens(args.type_name), input.ident) >>)

\* singleton_from_static that insists on a static of type LazyLock<Identifier>
singleton_from_static_checks_type(attr, item) ==
    LET args == ParseAttr(attr)
    IN  IF ~args.ok THEN CompileError("attr")
        ELSE LET input == ParseItemStatic(item)
             IN  IF ~input.ok \/ input.ty # "LazyLock<Identifier>"
                 THEN CompileError("item")
                 ELSE Tokens(<< StaticTokens(input),
                                ImplBlock(PathTokens(args.type_name), input.ident) >>)

singleton_from_static(attr, item) ==
    LET args == ParseAttr(attr)
    IN  IF ~args.ok THEN CompileError("attr")
        ELSE LET input == ParseItemStatic(item)
             IN  IF ~input.ok THEN CompileError("item")
                 ELSE Tokens(<< StaticTokens(input),
                                ImplBlock(PathTokens(args.type_name), input.ident) >>)

---------------------------------------------------------------------------
(* derive_singleton *)

None == [some |-> FALSE, ident |-> ""]

\* the test of one attribute without the check of its name
AttrIdent_any_name(attr) ==
    LET expr == ParseArgsExpr(attr)
    IN  IF expr.ok /\ expr.variant = "Path" THEN GetIdent(expr) ELSE None

\* the test of one attribute taking the last segment of any path
AttrIdent_last_segment(attr) ==
    LET expr == ParseArgsExpr(attr)
    IN  IF attr.path = "singleton" /\ expr.ok /\ expr.variant = "Path"
        THEN [some |-> TRUE, ident |-> expr.segments[Len(expr.segments)]]
        ELSE None

\* The body of the loop of find_singleton_static_name: the identifier this
\* attribute gives, if it is named singleton, its arguments parse as an
\* expression, the expression is a path, and the path is one identifier.
AttrIdent(attr) ==
    IF attr.path = "singleton"
    THEN LET expr == ParseArgsExpr(attr)
         IN  IF expr.ok
             THEN IF expr.variant = "Path" THEN GetIdent(expr) ELSE None
             ELSE None
    ELSE None

\* the loop from attribute i on: the first attribute that gives an identifier
RECURSIVE ScanAttrs(_, _)
ScanAttrs(attrs, i) ==
    IF i > Len(attrs) THEN None
    ELSE IF AttrIdent(attrs[i]).some THEN AttrIdent(attrs[i])
         ELSE ScanAttrs(attrs, i + 1)

\* the locator keeping the last match instead of returning the first
find_singleton_static_name_last(attrs) ==
    LET hits == { i \in 1..Len(attrs) : AttrIdent(attrs[i]).some }
    IN  IF hits = {} THEN None
        ELSE AttrIdent(attrs[CHOOSE i \in hits : \A k \in hits : k <= i])

\* the locator giving up at the first attribute named singleton
find_singleton_static_name_first_marker(attrs) ==
    LET named == { i \in 1..Len(attrs) : attrs[i].path = "singleton" }
    IN  IF named = {} THEN None
        ELSE AttrIdent(attrs[CHOOSE i \in named : \A k \in named : i <= k])

find_singleton_static_name(attrs) == ScanAttrs(attrs, 1)

\* derive_singleton that also prints the struct it was given
derive_singleton_reemits(item) ==
    LET static_name == find_singleton_static_name(item.attrs)
    IN  IF ~static_name.some THEN Panic("#[singleton(STATIC_NAME)] is required")
        ELSE Tokens(<< item, ImplBlock(<<item.ident>>, static_name.ident) >>)

\* derive_singleton that carries the generic parameters into the impl
derive_singleton_with_generics(item) ==
    LET static_name == find_singleton_static_name(item.attrs)
    IN  IF ~static_name.some THEN Panic("#[singleton(STATIC_NAME)] is required")
        ELSE Tokens(<< ImplBlock(<<item.ident>> \o item.generics, static_name.ident) >>)

\* parse_macro_input!(input as DeriveInput)
ParseDeriveInput(input) ==
    [ok |-> input.kind \in {"struct", "enum", "union"},
     ident |-> input.ident, attrs |-> input.attrs]

derive_singleton(item) ==
    LET input == ParseDeriveInput(item)
    IN  IF ~input.ok THEN CompileError("input")
        ELSE LET static_name == find_singleton_static_name(input.attrs)
             IN  IF ~static_name.some THEN Panic("#[singleton(STATIC_NAME)] is required")
                 ELSE Tokens(<< ImplBlock(<<input.ident>>, static_name.ident) >>)

---------------------------------------------------------------------------
(* The expansion pass *)

NoItem == [kind |-> "none"]

Init ==
    /\ invocation = [macro |-> "none", attr |-> <<>>, item |-> NoItem]
    /\ output = [kind |-> "none", items |-> <<>>, msg |-> ""]
    /\ expansions = 0

\* the compiler expands #[singleton_from_static(attr)] on item
SingletonFromStatic ==
    /\ expansions < MaxExpansions
    /\ \E attr \in AttrStreams, item \in Items :
          /\ invocation' = [macro |-> "singleton_from_static",
                            attr |-> attr, item |-> item]
          /\ output' = singleton_from_static(attr, item)
    /\ expansions' = expansions + 1

\* the compiler expands #[derive(Singleton)] on item
DeriveSingleton ==
    /\ expansions < MaxExpansions
    /\ \E item \in DeriveInputs :
          /\ invocation' = [macro |-> "derive_singleton",
                            attr |-> <<>>, item |-> item]
          /\ output' = derive_singleton(item)
    /\ expansions' = expansions + 1

Next == SingletonFromStatic \/ DeriveSingleton

Spec == Init /\ [][Next]_vars

\* a compilation whose macro calls are all of the attribute form
SpecAttribute == Init /\ [][SingletonFromStatic]_vars

\* a compilation whose macro calls are all of the derive form
SpecDerive == Init /\ [][DeriveSingleton]_vars


---------------------------------------------------------------------------
(* Shapes of inputs and outputs, stated on the tokens themselves *)

\* tokens is a type path: an optional leading ::, then identifiers
\* separated by ::
IsTypePath(tokens) ==
    LET lead == Len(tokens) >= 1 /\ tokens[1] = "::"
        off  == IF lead THEN 1 ELSE 0
        n    == Len(tokens) - off
    IN  /\ n % 2 = 1
        /\ \A k \in 1..n :
              IF k % 2 = 1 THEN IsIdent(tokens[off + k]) ELSE tokens[off + k] = "::"

\* the accessor methods of the output: <<i, j>> is method j of impl item i
Accessors(out) ==
    UNION { { <<i, j>> : j \in { k \in 1..Len(out.items[i].methods) :
                                   out.items[i].methods[k].name = "get_instance" } } :
            i \in { k \in 1..Len(out.items) : out.items[k].kind = "impl" } }

\* the output has exactly one accessor: on type_name, without arguments,
\* returning &'static type_name, with body &static_name
OneAccessor(out, type_name, static_name) ==
    /\ Cardinality(Accessors(out)) = 1
    /\ \A a \in Accessors(out) :
          /\ Len(out.items[a[1]].methods) = 1
          /\ out.items[a[1]].self_ty = type_name
          /\ out.items[a[1]].methods[a[2]].inputs = <<>>
          /\ out.items[a[1]].methods[a[2]].ret = [ref |-> "'static", ty |-> type_name]
          /\ out.items[a[1]].methods[a[2]].body = [ref |-> static_name]

\* the output holds the item
Emits(out, item) == \E i \in 1..Len(out.items) : out.items[i] = item

\* the output is a diagnostic and nothing else
OnlyDiagnostic(out) ==
    /\ out.kind = "tokens"
    /\ Len(out.items) = 1
    /\ out.items[1].kind = "compile_error"

AttributeCall == invocation.macro = "singleton_from_static"
DeriveCall == invocation.macro = "derive_singleton"

---------------------------------------------------------------------------
(* Claims about singleton_from_static *)

\* C1: for a well-formed static declaration and a type path as the sole
\* attribute argument, the expansion holds the static declaration unchanged
\* and exactly one accessor get_instance on the named type, returning
\* &'static of that type, whose body is a reference to the static.
C1_AttributeOutput ==
    (AttributeCall /\ IsTypePath(invocation.attr) /\ invocation.item \in StaticItems)
    => /\ output.kind = "tokens"
       /\ Emits(output, invocation.item)
       /\ OneAccessor(output, invocation.attr, invocation.item.ident)

C1_Witness ==
    /\ AttributeCall
    /\ invocation.attr = <<"Identifier">>
    /\ invocation.item.kind = "static"
    /\ invocation.item.ident = "IDENT"
    /\ Len(output.items) = 2

\* C8: when the attribute argument is not exactly one type path (empty, not
\* a path, or a path followed by more tokens), or the item is not a static,
\* the expansion is a compile-time diagnostic only: neither the item nor an
\* accessor is in the result.
C8_AttributeParseFailure ==
    (AttributeCall /\ (~IsTypePath(invocation.attr) \/ invocation.item.kind # "static"))
    => /\ OnlyDiagnostic(output)
       /\ ~Emits(output, invocation.item)
       /\ Accessors(output) = {}

\* a type path followed by another token, on a static
C8_Witness ==
    /\ AttributeCall
    /\ invocation.attr = <<"Identifier", "42">>
    /\ invocation.item.kind = "static"
    /\ OnlyDiagnostic(output)

\* C9: the attribute form validates nothing about the static's type: for a
\* well-formed static and any type path the expansion succeeds, and the
\* accessor it emits is the one it emits for any static of the same name
\* with another type and initializer.
C9_NoTypeValidation ==
    (AttributeCall /\ IsTypePath(invocation.attr) /\ invocation.item \in StaticItems)
    => /\ output.kind = "tokens"
       /\ Len(output.items) = 2
       /\ output.items[1] = invocation.item
       /\ \A other \in StaticItems :
             other.ident = invocation.item.ident
             => LET o == singleton_from_static(invocation.attr, other)
                IN  /\ Len(o.items) = 2
                    /\ o.items[1] = other
                    /\ o.items[2] = output.items[2]

\* a static whose type is not a wrapper of the named type, and a path that
\* is not the name of a declared type
C9_Witness ==
    /\ AttributeCall
    /\ invocation.item.kind = "static"
    /\ invocation.item.ty = "u32"
    /\ invocation.attr = <<"Identifier", "::", "Identifier">>
    /\ Accessors(output) # {}

---------------------------------------------------------------------------
(* Claims about derive_singleton and find_singleton_static_name *)

\* the attributes of the declaration given to the derive
Attrs == invocation.item.attrs

\* positions of the attributes named singleton
Markers(attrs) == { i \in 1..Len(attrs) : attrs[i].path = "singleton" }

\* the attribute is written #[name(X)] with X one identifier
BareIdent(a) == a.style = "list" /\ Len(a.tokens) = 1 /\ IsIdent(a.tokens[1])

\* positions of the attributes #[singleton(X)], X one identifier
GoodMarkers(attrs) == { i \in Markers(attrs) : BareIdent(attrs[i]) }

First(S) == CHOOSE i \in S : \A k \in S : i <= k

\* the attributes without those at the positions in S
Without(attrs, S) ==
    LET keep == { i \in 1..Len(attrs) : i \notin S }
        RECURSIVE Pick(_, _)
        Pick(i, acc) == IF i > Len(attrs) THEN acc
                        ELSE Pick(i + 1, IF i \in keep THEN Append(acc, attrs[i]) ELSE acc)
    IN  Pick(1, <<>>)

\* the failure of an expansion that finds no static name
RequiredFailure(out) ==
    /\ out.kind = "panic"
    /\ out.msg = "#[singleton(STATIC_NAME)] is required"
    /\ out.items = <<>>

\* C2: for a struct with exactly one marker annotation #[singleton(X)], X
\* one identifier, the derive expansion is exactly one accessor
\* get_instance on the struct whose body references X, and the struct
\* declaration is not in the output.
C2_DeriveOutput ==
    (DeriveCall /\ Cardinality(Markers(Attrs)) = 1 /\ GoodMarkers(Attrs) = Markers(Attrs))
    => /\ output.kind = "tokens"
       /\ OneAccessor(output, <<invocation.item.ident>>,
                      Attrs[First(Markers(Attrs))].tokens[1])
       /\ \A i \in 1..Len(output.items) : output.items[i].kind # "struct"

C2_Witness ==
    /\ DeriveCall
    /\ Attrs = << [path |-> "singleton", style |-> "list", tokens |-> <<"IDENT">>] >>
    /\ invocation.item.ident = "Identifier"
    /\ output.kind = "tokens"

\* C3: for a struct with no attribute named singleton the derive expansion
\* aborts with the message "#[singleton(STATIC_NAME)] is required" and
\* emits nothing.
C3_NoMarkerFails ==
    (DeriveCall /\ Markers(Attrs) = {}) => RequiredFailure(output)

\* a struct whose one attribute is not named singleton
C3_Witness ==
    /\ DeriveCall
    /\ Len(Attrs) = 1
    /\ Attrs[1].path = "doc"
    /\ output.kind = "panic"

\* C4: when the only marker annotation does not carry one bare identifier
\* (a literal, another expression, a path of several segments, or no
\* argument list), the locator reports absence and the expansion fails
\* exactly as it does for the declaration without that annotation.
C4_MalformedMarkerFails ==
    (DeriveCall /\ Cardinality(Markers(Attrs)) = 1 /\ GoodMarkers(Attrs) = {})
    => /\ ~find_singleton_static_name(Attrs).some
       /\ RequiredFailure(output)
       /\ output = derive_singleton(
              [invocation.item EXCEPT !.attrs = Without(Attrs, Markers(Attrs))])

\* the marker carries a path of two segments
C4_Witness ==
    /\ DeriveCall
    /\ Cardinality(Markers(Attrs)) = 1
    /\ \E i \in Markers(Attrs) : Attrs[i].tokens = <<"IDENT", "::", "OTHER">>
    /\ output.kind = "panic"

\* the expansion emitted an accessor
Succeeds(out) == out.kind = "tokens" /\ Accessors(out) # {}

\* C5 as stated: the derive expansion succeeds only when the annotations
\* hold exactly one marker and that marker carries one identifier, and
\* fails otherwise.
C5_ExactlyOneMarker ==
    DeriveCall
    => (Succeeds(output)
        <=> (Cardinality(Markers(Attrs)) = 1 /\ GoodMarkers(Attrs) = Markers(Attrs)))

\* C5 amended: the derive expansion succeeds exactly when at least one
\* marker annotation carries one bare identifier, whatever other marker
\* annotations are present, and otherwise it fails at expansion time with
\* the required-message failure.
C5_AtLeastOneMarker ==
    DeriveCall
    => /\ Succeeds(output) <=> GoodMarkers(Attrs) # {}
       /\ ~Succeeds(output) => RequiredFailure(output)

\* two well-formed markers, and the expansion succeeds
C5_Witness ==
    /\ DeriveCall
    /\ Cardinality(GoodMarkers(Attrs)) = 2
    /\ Succeeds(output)

\* C6: the locator returns the identifier of the first annotation, in
\* order, that is named singleton and carries one bare identifier, and
\* absence exactly when there is none; malformed markers before it are
\* passed over and markers after it change nothing.  The expansion uses
\* that identifier.
C6_FirstMatchWins ==
    DeriveCall
    => LET r == find_singleton_static_name(Attrs)
       IN  IF GoodMarkers(Attrs) = {}
           THEN ~r.some /\ ~Succeeds(output)
           ELSE /\ r.some
                /\ r.ident = Attrs[First(GoodMarkers(Attrs))].tokens[1]
                /\ OneAccessor(output, <<invocation.item.ident>>, r.ident)

\* a malformed marker comes before the well-formed one
C6_Witness ==
    /\ DeriveCall
    /\ Len(Attrs) = 2
    /\ Markers(Attrs) = {1, 2}
    /\ GoodMarkers(Attrs) = {2}
    /\ Succeeds(output)

\* C10: the derive expansion depends on the declaration's name and the
\* identifier the locator selects, and on nothing else: any declaration
\* that agrees with the expanded one on both expands to the same output,
\* whatever its fields, generics, visibility and other annotations, and
\* whatever was expanded before.
C10_DerivePure ==
    DeriveCall
    => LET selected == find_singleton_static_name(Attrs)
       IN  \A other \in DeriveInputs :
              (/\ other.ident = invocation.item.ident
               /\ find_singleton_static_name(other.attrs) = selected)
              => derive_singleton(other) = output

\* the second expansion of the compilation, of a generic struct with an
\* annotation of another name before the selected marker
C10_Witness ==
    /\ DeriveCall
    /\ expansions >= 2
    /\ invocation.item.generics # <<>>
    /\ Len(Attrs) = 2
    /\ Attrs[1].path = "doc"
    /\ GoodMarkers(Attrs) = {2}
    /\ Succeeds(output)

=============================================================================
